---- MODULE Spec2Model ----
(***************************************************************************)
(* A model of the madvise crate (src/src/lib.rs): the AccessPattern        *)
(* enumeration, the raw operation `madvise` and the byte-slice capability  *)
(* `advise_memory_access`, together with the part of the platform they     *)
(* talk to: a small paged address space, the kernel's advisory call and    *)
(* each thread's last-error slot (errno).                                  *)
(*                                                                         *)
(* The platform call libc::madvise is not code of the crate.  It is        *)
(* modelled as the set of outcomes madvise(2) documents for the unix       *)
(* platforms the crate builds on; the call picks one of them.              *)
(***************************************************************************)
EXTENDS Integers, Sequences, FiniteSets, TLC

VARIABLES
    target,     \* "unix" | "other": the cfg(unix) / cfg(not(unix)) build
    mem,        \* contents of the mapped bytes: address -> byte
    kadvice,    \* kernel paging heuristics: the last advisory applied
    errno,      \* per thread: the platform's last-error value
    pc,         \* per thread: position in the call
    self,       \* per thread: the slice advise_memory_access was called on
    args,       \* per thread: madvise's parameters <<ptr, len, advice>>
    result,     \* per thread: madvise's local `result`
    mret,       \* per thread: the io::Result madvise returned
    ret,        \* per thread: the io::Result the caller received
    sys,        \* per thread: platform calls issued by this invocation
    own,        \* per thread: the error code this invocation's calls set
    again,      \* per thread: the range had been advised before, differently
    given       \* per thread: the advice the caller passed

vars == <<target, mem, kadvice, errno, pc, self, args, result, mret, ret, sys, own, again, given>>

(***************************************************************************)
(* Bounds of the model.                                                    *)
(***************************************************************************)
PageSize == 2

(***************************************************************************)
(* AccessPattern (lib.rs 5-13): five variants, #[repr(i32)], each with the *)
(* platform's constant as discriminant (the values are those of Linux).    *)
(***************************************************************************)
MADV_NORMAL == 0
MADV_SEQUENTIAL == 2
MADV_RANDOM == 1
MADV_DONTNEED == 4
MADV_WILLNEED == 3

AccessPattern == {"Normal", "Sequential", "Random", "DontNeed", "WillNeed"}

\* `advice as libc::c_int` (lib.rs 63): the variant's discriminant.
AsCInt(advice) ==
    CASE advice = "Normal"     -> MADV_NORMAL
      [] advice = "Sequential" -> MADV_SEQUENTIAL
      [] advice = "Random"     -> MADV_RANDOM
      [] advice = "DontNeed"   -> MADV_DONTNEED
      [] advice = "WillNeed"   -> MADV_WILLNEED

(***************************************************************************)
(* The address space.  Page 0 is unmapped: it holds the null address and   *)
(* the dangling address of an empty slice.  Page 1 is a private anonymous  *)
(* mapping holding one initialized allocation of bytes.                    *)
(***************************************************************************)
NULL == 0
HeapBase == PageSize
HeapEnd == 2 * PageSize
Heap == HeapBase .. (HeapEnd - 1)
InitMem == [a \in Heap |-> 1]

\* NonNull::dangling() for u8: the alignment of u8, the address of an empty Vec.
Dangling == 1

(***************************************************************************)
(* Byte slices ([u8]): a non-null start and a length; a non-empty slice    *)
(* lies within the allocation, an empty one may also dangle.               *)
(***************************************************************************)
Slices ==
    {[ptr |-> Dangling, len |-> 0]}
    \cup {s \in [ptr : HeapBase .. HeapEnd, len : 0 .. PageSize] :
             s.ptr + s.len <= HeapEnd}

\* <[u8]>::as_ptr (lib.rs 75)
as_ptr(s) == s.ptr

\* <[u8]>::len (lib.rs 75)
len(s) == s.len

Range(p, n) == p .. (p + n - 1)

\* The slice of a call that did not come through advise_memory_access.
NoSlice == [ptr |-> NULL, len |-> 0]

\* io::Result<()> (lib.rs 62, 66, 68)
Ok == <<"Ok">>
Err(e) == <<"Err", e>>
Unset == <<>>

\* The platform's error codes, and the value of a last-error slot never set.
Errnos == {"EINVAL", "EAGAIN", "ENOMEM"}
NoErrno == "0"

(***************************************************************************)
(* The platform call libc::madvise(addr, length, advice) (lib.rs 63).      *)
(* madvise(2): the kernel works on whole pages, so the length is rounded   *)
(* up to a page multiple; Linux fails with EINVAL when addr is not         *)
(* page-aligned, where the BSDs and macOS truncate addr to its page; a     *)
(* zero length succeeds with nothing done; ENOMEM when the range holds     *)
(* unmapped pages; EINVAL for an advice that is none of the constants;     *)
(* MADV_WILLNEED may fail with EAGAIN; after MADV_DONTNEED the pages of a  *)
(* private anonymous mapping read as zero on Linux and are kept elsewhere. *)
(* A successful call leaves errno as it was.                               *)
(***************************************************************************)
KernelStart(ptr) == ptr - (ptr % PageSize)
KernelEnd(ptr, n) == ((ptr + n + PageSize - 1) \div PageSize) * PageSize
KernelBytes(ptr, n) == IF n = 0 THEN {} ELSE KernelStart(ptr) .. (KernelEnd(ptr, n) - 1)

Failure(e) == [ret |-> -1, err |-> e, discard |-> {}, applied |-> FALSE]
Success(d, a) == [ret |-> 0, err |-> NoErrno, discard |-> d, applied |-> a]

\* Linux: addr must be page-aligned; MADV_DONTNEED discards the pages.
LinuxOutcomes(ptr, n, code) ==
    IF ptr % PageSize # 0 THEN {Failure("EINVAL")}
    ELSE IF n = 0 THEN {Success({}, FALSE)}
    ELSE IF ~(KernelBytes(ptr, n) \subseteq Heap) THEN {Failure("ENOMEM")}
    ELSE IF code = MADV_WILLNEED THEN {Success({}, TRUE), Failure("EAGAIN")}
    ELSE IF code = MADV_DONTNEED THEN {Success(KernelBytes(ptr, n), TRUE)}
    ELSE {Success({}, TRUE)}

\* The BSDs and macOS: addr is truncated to its page; the pages are kept.
BsdOutcomes(ptr, n, code) ==
    IF n = 0 THEN {Success({}, FALSE)}
    ELSE IF ~(KernelBytes(ptr, n) \subseteq Heap) THEN {Failure("ENOMEM")}
    ELSE {Success({}, TRUE)}

PlatformOutcomes(ptr, n, code) ==
    IF code \notin {MADV_NORMAL, MADV_SEQUENTIAL, MADV_RANDOM, MADV_DONTNEED, MADV_WILLNEED}
    THEN {Failure("EINVAL")}
    ELSE LinuxOutcomes(ptr, n, code) \cup BsdOutcomes(ptr, n, code)

\* errno kept in one slot shared by all threads.
SetErrnoProcessWide(t, e) == [u \in DOMAIN errno |-> e]

\* errno is thread-local: a failing call sets the calling thread's slot only.
SetErrno(t, e) == [errno EXCEPT ![t] = e]

(***************************************************************************)
(* The crate.                                                              *)
(***************************************************************************)
Threads == {"t1"}
ConcThreads == {"t1", "t2"}

Init(T) ==
    /\ target \in {"unix", "other"}
    /\ mem = InitMem
    /\ kadvice = <<>>
    /\ errno = [t \in T |-> NoErrno]
    /\ pc = [t \in T |-> "idle"]
    /\ self = [t \in T |-> NoSlice]
    /\ args = [t \in T |-> <<>>]
    /\ result = [t \in T |-> <<>>]
    /\ mret = [t \in T |-> Unset]
    /\ ret = [t \in T |-> Unset]
    /\ sys = [t \in T |-> <<>>]
    /\ own = [t \in T |-> NoErrno]
    /\ again = [t \in T |-> FALSE]
    /\ given = [t \in T |-> ""]

\* The arguments with the capacity behind the slice taken for its length.
SliceArgsCapacity(s, advice) ==
    <<as_ptr(s), IF s.ptr \in Heap THEN HeapEnd - s.ptr + 1 ELSE len(s), advice>>

\* lib.rs 75: madvise(self.as_ptr(), self.len(), advice)
SliceArgs(s, advice) == <<as_ptr(s), len(s), advice>>

\* lib.rs 62: the raw operation is entered with the caller's arguments.
EnterMadvise(t, s, a) ==
    /\ pc' = [pc EXCEPT ![t] = "madvise"]
    /\ self' = [self EXCEPT ![t] = s]
    /\ args' = [args EXCEPT ![t] = a]
    /\ UNCHANGED <<target, mem, kadvice, errno, result, mret, ret, sys, own, again>>

\* lib.rs 72-77: the cfg(unix) implementation.
AdviseUnix(t, s, advice) == EnterMadvise(t, s, SliceArgs(s, advice))

\* The fallback implementation forwarding to the raw operation all the same.
AdviseOtherForwards(t, s, advice) == EnterMadvise(t, s, SliceArgs(s, advice))

\* lib.rs 79-84: the cfg(not(unix)) implementation returns Ok(()).
AdviseOther(t, s, advice) ==
    /\ pc' = [pc EXCEPT ![t] = "done"]
    /\ self' = [self EXCEPT ![t] = s]
    /\ ret' = [ret EXCEPT ![t] = Ok]
    /\ UNCHANGED <<target, mem, kadvice, errno, args, result, mret, sys, own, again>>

\* <[u8] as AdviseMemory>::advise_memory_access, the implementation chosen by cfg.
AdviseMemoryAccess(t, s, advice) ==
    /\ pc[t] = "idle"
    /\ given' = [given EXCEPT ![t] = advice]
    /\ \/ target = "unix" /\ AdviseUnix(t, s, advice)
       \/ target = "other" /\ AdviseOther(t, s, advice)

\* lib.rs 62: a direct call of the raw operation (libc::madvise is unix only).
Madvise(t, ptr, n, advice) ==
    /\ pc[t] = "idle"
    /\ target = "unix"
    /\ given' = [given EXCEPT ![t] = advice]
    /\ EnterMadvise(t, NoSlice, <<ptr, n, advice>>)

\* The platform is handed a length of at least one byte.
PlatformArgsNonEmpty(a) == <<a[1], IF a[2] = 0 THEN 1 ELSE a[2], AsCInt(a[3])>>

\* lib.rs 63: (ptr as *mut c_void, len, advice as c_int)
PlatformArgs(a) == <<a[1], a[2], AsCInt(a[3])>>

\* The platform call itself: the kernel picks an outcome and acts on it.
IssueCall(t) ==
    LET p == PlatformArgs(args[t])
    IN /\ \E o \in PlatformOutcomes(p[1], p[2], p[3]) :
            /\ result' = [result EXCEPT ![t] = o.ret]
            /\ errno' = IF o.ret = 0 THEN errno ELSE SetErrno(t, o.err)
            /\ own' = [own EXCEPT ![t] = o.err]
            /\ mem' = [a \in Heap |-> IF a \in o.discard THEN 0 ELSE mem[a]]
            /\ kadvice' = IF o.applied THEN p ELSE kadvice
       /\ sys' = [sys EXCEPT ![t] = Append(@, p)]
       /\ again' = [again EXCEPT ![t] =
                        /\ kadvice # <<>>
                        /\ <<kadvice[1], kadvice[2]>> = <<p[1], p[2]>>
                        /\ kadvice[3] # p[3]]

\* The call skipped when the kernel was last given the same advisory.
LibcMadviseCached(t) ==
    /\ pc[t] = "madvise"
    /\ IF kadvice = PlatformArgs(args[t])
       THEN /\ result' = [result EXCEPT ![t] = 0]
            /\ UNCHANGED <<errno, own, mem, kadvice, sys, again>>
       ELSE IssueCall(t)
    /\ pc' = [pc EXCEPT ![t] = "check"]
    /\ UNCHANGED <<target, self, args, mret, ret, given>>

\* lib.rs 63: let result = libc::madvise(...)
LibcMadvise(t) ==
    /\ pc[t] = "madvise"
    /\ IssueCall(t)
    /\ pc' = [pc EXCEPT ![t] = "check"]
    /\ UNCHANGED <<target, self, args, mret, ret, given>>

\* The platform's result dropped: every call counts as a success.
IsSuccessAlways(r) == TRUE

\* lib.rs 65: result == 0
IsSuccess(r) == r = 0

\* The error built from a code that an intervening call may have set.
LastOsErrorClobbered(t) == IF errno[t] = "EAGAIN" THEN "EINVAL" ELSE "EAGAIN"

\* lib.rs 68: io::Error::last_os_error() reads the calling thread's errno.
LastOsError(t) == errno[t]

\* The wrapper discards the raw operation's result.
AdviseResultDiscarded(r) == Ok

\* lib.rs 75: the wrapper's value is the raw operation's value.
AdviseResult(r) == r

\* lib.rs 65-69: Ok(()) or Err(io::Error::last_os_error())
MadviseReturn(t) ==
    /\ pc[t] = "check"
    /\ LET r == IF IsSuccess(result[t]) THEN Ok ELSE Err(LastOsError(t))
       IN /\ mret' = [mret EXCEPT ![t] = r]
          /\ ret' = [ret EXCEPT ![t] = IF self[t] = NoSlice THEN r ELSE AdviseResult(r)]
    /\ pc' = [pc EXCEPT ![t] = "done"]
    /\ UNCHANGED <<target, mem, kadvice, errno, self, args, result, sys, own, again, given>>

\* The caller takes the result; nothing of the call is kept.
Consume(t) ==
    /\ pc[t] = "done"
    /\ pc' = [pc EXCEPT ![t] = "idle"]
    /\ self' = [self EXCEPT ![t] = NoSlice]
    /\ args' = [args EXCEPT ![t] = <<>>]
    /\ result' = [result EXCEPT ![t] = <<>>]
    /\ mret' = [mret EXCEPT ![t] = Unset]
    /\ ret' = [ret EXCEPT ![t] = Unset]
    /\ sys' = [sys EXCEPT ![t] = <<>>]
    /\ own' = [own EXCEPT ![t] = NoErrno]
    /\ again' = [again EXCEPT ![t] = FALSE]
    /\ given' = [given EXCEPT ![t] = ""]
    /\ UNCHANGED <<target, mem, kadvice, errno>>

\* Between calls the caller's other platform calls set its errno.
OtherSyscall(t, e) ==
    /\ pc[t] = "idle"
    /\ errno' = [errno EXCEPT ![t] = e]
    /\ UNCHANGED <<target, mem, kadvice, pc, self, args, result, mret, ret, sys, own, again, given>>

Next ==
    \/ \E t \in DOMAIN pc, s \in Slices, advice \in AccessPattern :
          AdviseMemoryAccess(t, s, advice)
    \/ \E t \in DOMAIN pc, s \in Slices, advice \in AccessPattern :
          Madvise(t, s.ptr, s.len, advice)
    \/ \E t \in DOMAIN pc : LibcMadvise(t)
    \/ \E t \in DOMAIN pc : MadviseReturn(t)
    \/ \E t \in DOMAIN pc : Consume(t)
    \/ \E t \in DOMAIN pc, e \in Errnos : OtherSyscall(t, e)

Spec == Init(Threads) /\ [][Next]_vars

(***************************************************************************)
(* Two threads calling at once, over overlapping ranges of the allocation. *)
(***************************************************************************)
ConcSlices == {[ptr |-> HeapBase, len |-> PageSize], [ptr |-> HeapBase + 1, len |-> 1]}
ConcAdvice == {"WillNeed", "DontNeed"}

ConcNext ==
    \/ \E t \in DOMAIN pc, s \in ConcSlices, advice \in ConcAdvice :
          AdviseMemoryAccess(t, s, advice)
    \/ \E t \in DOMAIN pc : LibcMadvise(t)
    \/ \E t \in DOMAIN pc : MadviseReturn(t)
    \/ \E t \in DOMAIN pc : Consume(t)

ConcSpec == Init(ConcThreads) /\ [][ConcNext]_vars

(***************************************************************************)
(* The claims.                                                             *)
(***************************************************************************)
InCall(t) == target = "unix" /\ pc[t] \in {"check", "done"}
Returned(t) == target = "unix" /\ pc[t] = "done"

\* C1: every invocation of madvise issues exactly one platform call, and
\* returns Ok(()) exactly when that call returned 0, a failure otherwise.
C1_FaithfulResult ==
    \A t \in DOMAIN pc :
        /\ (target = "unix" /\ pc[t] = "madvise") => Len(sys[t]) = 0
        /\ InCall(t) => Len(sys[t]) = 1
        /\ Returned(t) =>
              /\ (mret[t] = Ok) <=> (result[t] = 0)
              /\ (result[t] # 0) => (Len(mret[t]) = 2 /\ mret[t][1] = "Err")

\* A direct call of madvise has returned a failure the platform reported.
C1_Witness ==
    \E t \in DOMAIN pc :
        /\ Returned(t) /\ self[t] = NoSlice
        /\ result[t] = -1 /\ mret[t] = Err("EINVAL") /\ Len(sys[t]) = 1

\* C2: a failure returned by madvise carries the error code its own platform
\* call set: from the call's return to the retrieval of the error the
\* thread's last-error value is the one the call left.
C2_OwnErrorCode ==
    \A t \in DOMAIN pc :
        /\ (target = "unix" /\ pc[t] = "check" /\ result[t] # 0) => errno[t] = own[t]
        /\ (Returned(t) /\ mret[t] # Ok) => (own[t] \in Errnos /\ mret[t] = Err(own[t]))

\* A call has failed with EAGAIN and returned it.
C2_Witness ==
    \E t \in DOMAIN pc :
        Returned(t) /\ own[t] = "EAGAIN" /\ mret[t] = Err("EAGAIN")

\* C3: on unix, advise_memory_access hands the raw operation the slice's
\* start address, its length and the advice, and returns its result as is.
C3_SliceForwarded ==
    \A t \in DOMAIN pc :
        (target = "unix" /\ self[t] # NoSlice) =>
            /\ pc[t] \in {"madvise", "check", "done"}
            /\ <<args[t][1], args[t][2]>> = <<self[t].ptr, self[t].len>>
            /\ args[t][3] = given[t] /\ given[t] \in AccessPattern
            /\ pc[t] = "done" => (ret[t] = mret[t] /\ ret[t] # Unset)

\* A call on a non-empty slice has returned a failure through the wrapper.
C3_Witness ==
    \E t \in DOMAIN pc :
        /\ Returned(t) /\ self[t] # NoSlice /\ self[t].len > 0
        /\ given[t] = "Sequential" /\ ret[t] = Err("EINVAL")

\* C4: on a non-unix target advise_memory_access returns Ok(()) at once, for
\* every advice and slice, issues no platform call and changes nothing.
C4_NoOp ==
    [][target = "other" =>
          /\ mem' = mem /\ kadvice' = kadvice
          /\ \A t \in DOMAIN pc :
                /\ sys'[t] = <<>>
                /\ (pc[t] = "idle" /\ pc'[t] # "idle") =>
                      (pc'[t] = "done" /\ ret'[t] = Ok /\ errno' = errno)]_vars

\* On a non-unix target a call on the empty slice has returned Ok(()).
C4_Witness ==
    \E t \in DOMAIN pc :
        /\ target = "other" /\ pc[t] = "done"
        /\ self[t] = [ptr |-> Dangling, len |-> 0] /\ given[t] = "DontNeed"
        /\ ret[t] = Ok

\* C5: on unix, advise_memory_access on a non-empty slice returns success
\* for every advice.
C5_AlwaysSucceeds ==
    \A t \in DOMAIN pc :
        (Returned(t) /\ self[t] # NoSlice /\ self[t].len > 0) => ret[t] = Ok

\* C6: an advisory call leaves the contents of memory unchanged.
C6_ContentsUnchanged ==
    [][\A t \in DOMAIN pc :
          (pc[t] = "madvise" /\ pc'[t] = "check") => mem' = mem]_vars

\* C7: a platform call issued through advise_memory_access has a non-null
\* address and a range within the slice's allocated, initialized bytes, the
\* empty slice included.
C7_SliceCallValid ==
    \A t \in DOMAIN pc :
        self[t] # NoSlice =>
            \A i \in 1 .. Len(sys[t]) :
                /\ sys[t][i][1] # NULL
                /\ Range(sys[t][i][1], sys[t][i][2]) \subseteq Range(self[t].ptr, self[t].len)
                /\ Range(sys[t][i][1], sys[t][i][2]) \subseteq DOMAIN mem

\* The platform has been called for the empty, dangling slice.
C7_Witness ==
    \E t \in DOMAIN pc :
        self[t] = [ptr |-> Dangling, len |-> 0] /\ Len(sys[t]) = 1

C9_ConcurrentCalls ==
    \A t \in DOMAIN pc :
        /\ Returned(t) => ret[t] = (IF own[t] = NoErrno THEN Ok ELSE Err(own[t]))
        /\ pc[t] = "madvise" => ENABLED LibcMadvise(t)
        /\ pc[t] = "check" => ENABLED MadviseReturn(t)
        /\ pc[t] = "done" => ENABLED Consume(t)

\* A call has returned its own error code while another thread's call has
\* failed with a different one.
C9_Witness ==
    \E t, u \in DOMAIN pc :
        /\ t # u /\ Returned(t) /\ pc[u] \in {"check", "done"}
        /\ own[t] = "EINVAL" /\ ret[t] = Err("EINVAL")
        /\ own[u] = "EAGAIN" /\ errno[u] = "EAGAIN"

\* C10: the platform receives the caller's address and length as given, a
\* zero length as zero, and the constant of the chosen variant, the five
\* variants having five constants.
C10_PassThrough ==
    /\ \A a, b \in AccessPattern : a # b => AsCInt(a) # AsCInt(b)
    /\ \A t \in DOMAIN pc :
          InCall(t) =>
              /\ Len(sys[t]) = 1
              /\ <<sys[t][1][1], sys[t][1][2]>> = <<args[t][1], args[t][2]>>
              /\ sys[t][1][3] =
                    (CASE args[t][3] = "Normal"     -> MADV_NORMAL
                       [] args[t][3] = "Sequential" -> MADV_SEQUENTIAL
                       [] args[t][3] = "Random"     -> MADV_RANDOM
                       [] args[t][3] = "DontNeed"   -> MADV_DONTNEED
                       [] args[t][3] = "WillNeed"   -> MADV_WILLNEED)

\* A direct call with a zero length has reached the platform with length 0.
C10_Witness ==
    \E t \in DOMAIN pc :
        /\ InCall(t) /\ self[t] = NoSlice
        /\ args[t][2] = 0 /\ sys[t][1][2] = 0 /\ args[t][1] = HeapBase

====
